---- MODULE Spec2Model ----
(***************************************************************************)
(* Model of merge_contacts.py: the name normalizer (normalize_name), the   *)
(* response extractor (safe_json_loads), the merge service client          *)
(* (call_ollama) and the merge orchestrator (process_duplicates).          *)
(*                                                                         *)
(* Text is a sequence of one-character strings.  A JSON value is a tagged  *)
(* record [t, s, m]: t is the Python type, s the characters of a str or    *)
(* the digits of an int, m the members of a dict (a sequence of [k, v],    *)
(* in insertion order, keys unique) or the items of a list.                *)
(***************************************************************************)
EXTENDS Integers, Sequences, FiniteSets

VARIABLES
    \* process_duplicates
    master, MAX_GROUPS, pc, grouped, gi, unique_rows, merged_rows,
    processed_count, final_df, prompts, history,
    \* the merge service, and the run of process_duplicates before this one
    service, prior,
    \* safe_json_loads
    text, xobj, xform, xpc, scan, result,
    \* normalize_name
    name1, name2, key1, key2, npc

pvars == <<service, prior, master, MAX_GROUPS, pc, grouped, gi, unique_rows, merged_rows,
           processed_count, final_df, prompts, history>>
xvars == <<text, xobj, xform, xpc, scan, result>>
nvars == <<name1, name2, key1, key2, npc>>
vars == <<pvars, xvars, nvars>>

----------------------------------------------------------------------------
(* Python values *)

None == [t |-> "none", s |-> <<>>, m |-> <<>>]
Str(chars) == [t |-> "str", s |-> chars, m |-> <<>>]
PyInt(digits) == [t |-> "int", s |-> digits, m |-> <<>>]
Dict(members) == [t |-> "dict", s |-> <<>>, m |-> members]
List(items) == [t |-> "list", s |-> <<>>, m |-> items]

\* pandas' NaN, the value of a missing cell
NaN == [t |-> "nan", s |-> <<>>, m |-> <<>>]

RECURSIVE DictIndex(_, _, _)
\* position of key k in the members from position i on, 0 when absent
DictIndex(members, k, i) ==
    IF i > Len(members) THEN 0
    ELSE IF members[i].k = k THEN i
    ELSE DictIndex(members, k, i + 1)

\* d[k] = v : an existing key keeps its position, a new key goes last
DictSet(members, k, v) ==
    LET p == DictIndex(members, k, 1) IN
    IF p = 0 THEN Append(members, [k |-> k, v |-> v])
    ELSE [members EXCEPT ![p] = [k |-> k, v |-> v]]

\* d.get(k, default)
DictGet(members, k, default) ==
    LET p == DictIndex(members, k, 1) IN
    IF p = 0 THEN default ELSE members[p].v

\* d.pop(k, None), the dict that is left
DictPop(members, k) ==
    LET p == DictIndex(members, k, 1) IN
    IF p = 0 THEN members
    ELSE SubSeq(members, 1, p - 1) \o SubSeq(members, p + 1, Len(members))

----------------------------------------------------------------------------
(* json.loads, on the characters the model's texts are made of *)

\* whitespace of the JSON grammar
IsJsonWs(c) == c \in {" ", "\n", "\t", "\r"}

\* whitespace of the regular expressions (\s) and of str.strip()
IsSpace(c) == c \in {" ", "\n", "\t", "\r", "\f"}

Digits == {"0", "1", "2", "3", "4", "5", "6", "7", "8", "9"}

RECURSIVE SkipWs(_, _)
SkipWs(s, i) ==
    IF i <= Len(s) /\ IsJsonWs(s[i]) THEN SkipWs(s, i + 1) ELSE i

RECURSIVE SkipSpace(_, _)
SkipSpace(s, i) ==
    IF i <= Len(s) /\ IsSpace(s[i]) THEN SkipSpace(s, i + 1) ELSE i

RECURSIVE StringEnd(_, _)
\* index of the quote closing the string whose first character is at i,
\* 0 when the string is unterminated or holds a control character
StringEnd(s, i) ==
    IF i > Len(s) THEN 0
    ELSE IF s[i] = "\"" THEN i
    ELSE IF s[i] \in {"\n", "\t", "\r", "\f"} THEN 0
    ELSE StringEnd(s, i + 1)

RECURSIVE DigitsEnd(_, _)
DigitsEnd(s, i) ==
    IF i <= Len(s) /\ s[i] \in Digits THEN DigitsEnd(s, i + 1) ELSE i

ParseFail == [ok |-> FALSE, val |-> None, next |-> 0]
ParseOk(v, n) == [ok |-> TRUE, val |-> v, next |-> n]

RECURSIVE ParseValue(_, _)
RECURSIVE ParseMembers(_, _, _, _)
RECURSIVE ParseItems(_, _, _, _)

\* the value that starts at s[i]
ParseValue(s, i) ==
    IF i > Len(s) THEN ParseFail
    ELSE IF s[i] = "\"" THEN
        LET e == StringEnd(s, i + 1) IN
        IF e = 0 THEN ParseFail ELSE ParseOk(Str(SubSeq(s, i + 1, e - 1)), e + 1)
    ELSE IF s[i] = "{" THEN ParseMembers(s, SkipWs(s, i + 1), <<>>, TRUE)
    ELSE IF s[i] = "[" THEN ParseItems(s, SkipWs(s, i + 1), <<>>, TRUE)
    ELSE IF s[i] = "n" THEN
        IF i + 3 <= Len(s) /\ SubSeq(s, i, i + 3) = <<"n", "u", "l", "l">>
        THEN ParseOk(None, i + 4) ELSE ParseFail
    ELSE IF s[i] = "0" THEN ParseOk(PyInt(<<"0">>), i + 1)
    ELSE IF s[i] \in Digits THEN
        LET e == DigitsEnd(s, i) IN ParseOk(PyInt(SubSeq(s, i, e - 1)), e)
    ELSE ParseFail

\* the members of an object, s[i] being the first character after "{" or ","
ParseMembers(s, i, acc, first) ==
    IF i > Len(s) THEN ParseFail
    ELSE IF first /\ s[i] = "}" THEN ParseOk(Dict(acc), i + 1)
    ELSE IF s[i] # "\"" THEN ParseFail
    ELSE
        LET e == StringEnd(s, i + 1) IN
        IF e = 0 THEN ParseFail
        ELSE
            LET c == SkipWs(s, e + 1) IN
            IF c > Len(s) \/ s[c] # ":" THEN ParseFail
            ELSE
                LET r == ParseValue(s, SkipWs(s, c + 1)) IN
                IF ~r.ok THEN ParseFail
                ELSE
                    LET acc2 == DictSet(acc, SubSeq(s, i + 1, e - 1), r.val)
                        d == SkipWs(s, r.next)
                    IN  IF d > Len(s) THEN ParseFail
                        ELSE IF s[d] = "}" THEN ParseOk(Dict(acc2), d + 1)
                        ELSE IF s[d] = ","
                             THEN ParseMembers(s, SkipWs(s, d + 1), acc2, FALSE)
                        ELSE ParseFail

\* the items of an array, s[i] being the first character after "[" or ","
ParseItems(s, i, acc, first) ==
    IF i > Len(s) THEN ParseFail
    ELSE IF first /\ s[i] = "]" THEN ParseOk(List(acc), i + 1)
    ELSE
        LET r == ParseValue(s, i) IN
        IF ~r.ok THEN ParseFail
        ELSE
            LET acc2 == Append(acc, r.val)
                d == SkipWs(s, r.next)
            IN  IF d > Len(s) THEN ParseFail
                ELSE IF s[d] = "]" THEN ParseOk(List(acc2), d + 1)
                ELSE IF s[d] = ","
                     THEN ParseItems(s, SkipWs(s, d + 1), acc2, FALSE)
                ELSE ParseFail

\* json.loads(s): ok is FALSE where json.loads raises
JsonLoads(s) ==
    LET r == ParseValue(s, SkipWs(s, 1)) IN
    IF r.ok /\ SkipWs(s, r.next) = Len(s) + 1 THEN r ELSE ParseFail

----------------------------------------------------------------------------
(* safe_json_loads *)

UpperCase == <<"A", "B", "C", "D", "E", "F", "G", "H", "I", "J", "K", "L", "M",
               "N", "O", "P", "Q", "R", "S", "T", "U", "V", "W", "X", "Y", "Z">>
LowerCase == <<"a", "b", "c", "d", "e", "f", "g", "h", "i", "j", "k", "l", "m",
               "n", "o", "p", "q", "r", "s", "t", "u", "v", "w", "x", "y", "z">>

\* str.lower() of one character; re.IGNORECASE compares through it
Lower(c) ==
    IF \E n \in 1..Len(UpperCase) : UpperCase[n] = c
    THEN LowerCase[CHOOSE n \in 1..Len(UpperCase) : UpperCase[n] = c]
    ELSE c

SetMin(S) == CHOOSE x \in S : \A y \in S : x <= y

\* the backquote character, which a TLA+ string cannot hold; FENCE in the
\* comments below stands for three of them
BackTick == "BACKTICK"

\* three backquotes at s[p]
IsFence(s, p) ==
    /\ p + 2 <= Len(s)
    /\ s[p] = BackTick /\ s[p + 1] = BackTick /\ s[p + 2] = BackTick

\* (?:json)? at s[p], case-insensitive
HasJsonTag(s, p) ==
    /\ p + 3 <= Len(s)
    /\ <<Lower(s[p]), Lower(s[p + 1]), Lower(s[p + 2]), Lower(s[p + 3])>>
         = <<"j", "s", "o", "n">>

\* FENCE(?:json)?\s*(\{ matched from s[p]: the index of that "{", else 0
FenceOpen(s, p) ==
    IF ~IsFence(s, p) THEN 0
    ELSE
        LET a == IF HasJsonTag(s, p + 3) THEN p + 7 ELSE p + 3
            o == SkipSpace(s, a)
        IN  IF o <= Len(s) /\ s[o] = "{" THEN o ELSE 0

\* .*?\})\s*FENCE after the "{" at s[o]: the indices a closing "}" can take
FenceCloses(s, o) ==
    {q \in (o + 1)..Len(s) : s[q] = "}" /\ IsFence(s, SkipSpace(s, q + 1))}

\* re.search(r"FENCE(?:json)?\s*(\{.*?\})\s*FENCE", s, DOTALL | IGNORECASE):
\* the leftmost start that matches, and from it the shortest group 1
fence_match(s) ==
    LET starts == {p \in 1..Len(s) :
                     FenceOpen(s, p) # 0 /\ FenceCloses(s, FenceOpen(s, p)) # {}}
    IN  IF starts = {} THEN [found |-> FALSE, inner |-> <<>>]
        ELSE LET o == FenceOpen(s, SetMin(starts))
             IN  [found |-> TRUE,
                  inner |-> SubSeq(s, o, SetMin(FenceCloses(s, o)))]

\* step 1: json.loads(text)
DirectAttempt(s) == JsonLoads(s)

\* step 2: json.loads of the fenced block's interior
FenceAttempt(s) ==
    LET fm == fence_match(s) IN
    IF fm.found THEN JsonLoads(fm.inner) ELSE ParseFail

\* step 3 before its first character; start_idx 0 is Python's None (text is
\* indexed from 1 here)
ScanInit ==
    [i |-> 1, stack |-> <<>>, start_idx |-> 0, returned |-> FALSE, val |-> None]

\* a candidate span that does not parse: what the except branch leaves
DiscardCandidate(st, stack2) ==
    [st EXCEPT !.start_idx = 0, !.stack = stack2, !.i = @ + 1]

\* one iteration of "for i, ch in enumerate(text)"
ScanStep(s, st) ==
    LET ch == s[st.i] IN
    IF ch = "{" THEN
        [st EXCEPT !.start_idx = IF st.stack = <<>> THEN st.i ELSE @,
                   !.stack = Append(@, "{"),
                   !.i = @ + 1]
    ELSE IF ch = "}" /\ st.stack # <<>> THEN
        LET stack2 == SubSeq(st.stack, 1, Len(st.stack) - 1) IN
        IF stack2 = <<>> /\ st.start_idx # 0 THEN
            LET r == JsonLoads(SubSeq(s, st.start_idx, st.i)) IN
            IF r.ok
            THEN [st EXCEPT !.stack = stack2, !.returned = TRUE, !.val = r.val]
            ELSE DiscardCandidate(st, stack2)
        ELSE [st EXCEPT !.stack = stack2, !.i = @ + 1]
    ELSE [st EXCEPT !.i = @ + 1]

RECURSIVE BraceScan(_, _)
\* the for loop, run to its return or to the end of the text
BraceScan(s, st) ==
    IF st.returned \/ st.i > Len(s) THEN st ELSE BraceScan(s, ScanStep(s, st))

\* safe_json_loads(text); None where no step yields a value
safe_json_loads(s) ==
    IF DirectAttempt(s).ok THEN DirectAttempt(s).val
    ELSE IF FenceAttempt(s).ok THEN FenceAttempt(s).val
    ELSE LET st == BraceScan(s, ScanInit) IN
         IF st.returned THEN st.val ELSE None

----------------------------------------------------------------------------
(* normalize_name *)

\* \w of a UNICODE pattern, on the characters of the model
IsWordChar(c) ==
    \/ \E n \in 1..Len(LowerCase) : LowerCase[n] = c \/ UpperCase[n] = c
    \/ c \in Digits
    \/ c = "_"

RECURSIVE LStrip(_)
LStrip(s) == IF s # <<>> /\ IsSpace(Head(s)) THEN LStrip(Tail(s)) ELSE s

RECURSIVE RStrip(_)
RStrip(s) ==
    IF s # <<>> /\ IsSpace(s[Len(s)]) THEN RStrip(SubSeq(s, 1, Len(s) - 1)) ELSE s

\* str.strip()
Strip(s) == RStrip(LStrip(s))

\* str.lower()
LowerAll(s) == [n \in 1..Len(s) |-> Lower(s[n])]

\* mutant: punctuation is removed, not replaced by a space
SubPunctuationRemoved(s) ==
    LET Kept(c) == IsWordChar(c) \/ IsSpace(c) IN SelectSeq(s, Kept)

\* re.sub(r"[^\w\s]", " ", s, flags=re.UNICODE)
SubPunctuation(s) ==
    [n \in 1..Len(s) |-> IF IsWordChar(s[n]) \/ IsSpace(s[n]) THEN s[n] ELSE " "]

RECURSIVE CollapseSpace(_)
\* re.sub(r"\s+", " ", s)
CollapseSpace(s) ==
    IF s = <<>> THEN <<>>
    ELSE IF IsSpace(Head(s)) THEN <<" ">> \o CollapseSpace(LStrip(s))
    ELSE <<Head(s)>> \o CollapseSpace(Tail(s))

\* normalize_name(name): name is any Python value, the result the characters
\* of a str
normalize_name(name) ==
    IF name.t # "str" THEN <<>>
    ELSE Strip(CollapseSpace(SubPunctuation(LowerAll(Strip(name.s)))))

----------------------------------------------------------------------------
(* the working table *)

FullNameKey == <<"F", "u", "l", "l", "N", "a", "m", "e">>
NormKey ==
    <<"n", "o", "r", "m", "a", "l", "i", "z", "e", "d", "_", "n", "a", "m", "e">>

\* MAX_GROUPS = None
NoCap == -1

\* A row of the working table is [src, rec]: rec the row's record (what
\* to_dict(orient="records") gives), src the row's position in the table
\* as loaded.  An emitted row is [src, grp, rec]: grp the key of the group
\* that emitted it, src 0 for a record the service returned.  src and grp
\* are provenance; no operation reads them.

\* prepare_dataframe(master)
prepare_dataframe(tbl) ==
    [n \in 1..Len(tbl) |->
        [tbl[n] EXCEPT !.rec =
            DictSet(@, NormKey, Str(normalize_name(DictGet(@, FullNameKey, NaN))))]]

\* the row's normalized_name
KeyOf(row) == DictGet(row.rec, NormKey, Str(<<>>)).s

\* ord(c) of the characters a normalized name is made of
CodePoint(c) ==
    IF c = " " THEN 32
    ELSE IF c = "_" THEN 95
    ELSE IF \E n \in 1..Len(LowerCase) : LowerCase[n] = c
         THEN 96 + (CHOOSE n \in 1..Len(LowerCase) : LowerCase[n] = c)
    ELSE IF \E n \in 1..Len(UpperCase) : UpperCase[n] = c
         THEN 64 + (CHOOSE n \in 1..Len(UpperCase) : UpperCase[n] = c)
    ELSE 48 + (CHOOSE d \in 0..9 : <<"0", "1", "2", "3", "4", "5", "6", "7", "8", "9">>[d + 1] = c)

RECURSIVE KeyLess(_, _)
\* a < b of two str
KeyLess(a, b) ==
    IF a = <<>> THEN b # <<>>
    ELSE IF b = <<>> THEN FALSE
    ELSE IF Head(a) = Head(b) THEN KeyLess(Tail(a), Tail(b))
    ELSE CodePoint(Head(a)) < CodePoint(Head(b))

RECURSIVE SortedKeys(_)
\* the group keys in the order groupby(sort=True) yields them
SortedKeys(S) ==
    IF S = {} THEN <<>>
    ELSE LET least == CHOOSE k \in S : \A o \in S \ {k} : KeyLess(k, o)
         IN  <<least>> \o SortedKeys(S \ {least})

\* the rows of tbl whose key is k, in the table's order
GroupRows(tbl, k) ==
    LET InGroup(r) == KeyOf(r) = k IN SelectSeq(tbl, InGroup)

RECURSIVE FirstSeenKeys(_, _, _)
FirstSeenKeys(tbl, n, acc) ==
    IF n > Len(tbl) THEN acc
    ELSE FirstSeenKeys(tbl, n + 1,
             IF \E a \in 1..Len(acc) : acc[a] = KeyOf(tbl[n]) THEN acc
             ELSE Append(acc, KeyOf(tbl[n])))

\* mutant: groupby(..., sort=False), the keys in the order they first appear
groupbyFirstSeen(tbl) ==
    LET keys == FirstSeenKeys(tbl, 1, <<>>)
    IN  [g \in 1..Len(keys) |-> [key |-> keys[g], rows |-> GroupRows(tbl, keys[g])]]

\* tbl.groupby("normalized_name", dropna=False), as the (key, group_df)
\* pairs its iteration yields
groupby(tbl) ==
    LET keys == SortedKeys({KeyOf(tbl[n]) : n \in 1..Len(tbl)})
    IN  [g \in 1..Len(keys) |-> [key |-> keys[g], rows |-> GroupRows(tbl, keys[g])]]

\* the rows of a group as they are emitted
Emitted(rows, key) ==
    [n \in 1..Len(rows) |-> [src |-> rows[n].src, grp |-> key, rec |-> rows[n].rec]]

\* build_prompt_for_group(rows): the records the prompt embeds, the helper key
\* left out and NaN written as None (the instruction text is constant)
build_prompt_for_group(rows) ==
    [n \in 1..Len(rows) |->
        LET NotHelper(mem) == mem.k # NormKey
            kept == SelectSeq(rows[n].rec, NotHelper)
        IN  [src |-> rows[n].src,
             rec |-> [j \in 1..Len(kept) |->
                        [k |-> kept[j].k,
                         v |-> IF kept[j].v = NaN THEN None ELSE kept[j].v]]]]

\* call_ollama(prompt), given what requests.post and resp.json() do with
\* the request
call_ollama(resp) ==
    IF resp.exc = "RequestException" THEN None
    ELSE IF resp.status_code # 200 THEN None
    ELSE IF resp.exc # "none" THEN None
    ELSE safe_json_loads(resp.text)

\* the merged record as it is appended to merged_rows
MergedRecord(merged_json) ==
    LET popped == IF DictIndex(merged_json.m, NormKey, 1) # 0
                  THEN DictPop(merged_json.m, NormKey) ELSE merged_json.m
        merged_fullname == DictGet(popped, FullNameKey, Str(<<>>))
    IN  DictSet(popped, NormKey, Str(normalize_name(merged_fullname)))

RECURSIVE UnionColumns(_, _, _, _)
\* the columns of pd.DataFrame(rows): the keys of the records, first seen first
UnionColumns(rows, n, j, acc) ==
    IF n > Len(rows) THEN acc
    ELSE IF j > Len(rows[n].rec) THEN UnionColumns(rows, n + 1, 1, acc)
    ELSE LET k == rows[n].rec[j].k IN
         UnionColumns(rows, n, j + 1,
                      IF \E a \in 1..Len(acc) : acc[a] = k THEN acc ELSE Append(acc, k))

\* the frame's rows over the columns cols, NaN in the cells a record lacks
Reindex(rows, cols) ==
    [n \in 1..Len(rows) |->
        [rows[n] EXCEPT !.rec =
            [j \in 1..Len(cols) |-> [k |-> cols[j], v |-> DictGet(@, cols[j], NaN)]]]]

\* pd.DataFrame(rows)
DataFrame(rows) ==
    LET cols == UnionColumns(rows, 1, 1, <<>>)
    IN  [columns |-> cols, rows |-> Reindex(rows, cols)]

HasColumn(df, c) == \E j \in 1..Len(df.columns) : df.columns[j] = c

\* df.drop(columns=[c])
DropColumn(df, c) ==
    LET Other(k) == k # c
        cols == SelectSeq(df.columns, Other)
    IN  [columns |-> cols, rows |-> Reindex(df.rows, cols)]

\* mutant: the merged rows are put before the unique rows
ComposeFinalMergedFirst(unique, merged) ==
    LET df0 == DataFrame(merged \o unique)
        df1 == IF HasColumn(df0, NormKey) THEN DropColumn(df0, NormKey) ELSE df0
        Other(k) == k # FullNameKey
        cols == <<FullNameKey>> \o SelectSeq(df1.columns, Other)
    IN  IF HasColumn(df1, FullNameKey)
        THEN [columns |-> cols, rows |-> Reindex(df1.rows, cols)]
        ELSE df1

\* the frame process_duplicates returns for the rows it collected
ComposeFinal(unique, merged) ==
    LET df0 == DataFrame(unique \o merged)
        df1 == IF HasColumn(df0, NormKey) THEN DropColumn(df0, NormKey) ELSE df0
        Other(k) == k # FullNameKey
        cols == <<FullNameKey>> \o SelectSeq(df1.columns, Other)
    IN  IF HasColumn(df1, FullNameKey)
        THEN [columns |-> cols, rows |-> Reindex(df1.rows, cols)]
        ELSE df1

----------------------------------------------------------------------------
(* the inputs the runs are taken over *)

MaxRows == 4
MaxCap == 1

RECURSIVE Dumps(_)
RECURSIVE DumpsMembers(_, _)
RECURSIVE DumpsItems(_, _)

\* the JSON text of a value, with the separators ", " and ": "
Dumps(v) ==
    IF v.t = "str" THEN <<"\"">> \o v.s \o <<"\"">>
    ELSE IF v.t = "int" THEN v.s
    ELSE IF v.t = "dict" THEN <<"{">> \o DumpsMembers(v.m, 1) \o <<"}">>
    ELSE IF v.t = "list" THEN <<"[">> \o DumpsItems(v.m, 1) \o <<"]">>
    ELSE <<"n", "u", "l", "l">>

DumpsMembers(m, n) ==
    IF n > Len(m) THEN <<>>
    ELSE (IF n > 1 THEN <<",", " ">> ELSE <<>>)
         \o <<"\"">> \o m[n].k \o <<"\"", ":", " ">> \o Dumps(m[n].v)
         \o DumpsMembers(m, n + 1)

DumpsItems(m, n) ==
    IF n > Len(m) THEN <<>>
    ELSE (IF n > 1 THEN <<",", " ">> ELSE <<>>) \o Dumps(m[n]) \o DumpsItems(m, n + 1)

Fence == <<BackTick, BackTick, BackTick>>

\* a fenced block holding s, with the tag "json" or without
Fenced(s, tagged) ==
    Fence \o (IF tagged THEN <<"j", "s", "o", "n">> ELSE <<>>) \o <<"\n">> \o s
          \o <<"\n">> \o Fence

\* the FullName cells of the loaded files: a missing cell, two spellings of
\* one name, and another name
NamePool ==
    {NaN, Str(<<"A", "!">>), Str(<<"a">>), Str(<<"b">>)}

\* the tables main() hands to prepare_dataframe
RawTables ==
    UNION {{[n \in 1..len |->
               [src |-> n, rec |-> <<[k |-> FullNameKey, v |-> f[n]]>>]]
            : f \in [1..len -> NamePool]} : len \in 0..MaxRows}

Member(k, v) == [k |-> k, v |-> v]

\* the texts the service answers with, each with what it holds: "object" a
\* well-formed JSON object (alone, fenced or after commentary), "non_object"
\* another JSON value, "no_object" no JSON at all
ResponseTexts ==
    { [kind |-> "object",
       text |-> Dumps(Dict(<<Member(FullNameKey, Str(<<"A", " ", "b">>))>>))],
      [kind |-> "object",
       text |-> Fenced(Dumps(Dict(<<Member(FullNameKey, Str(<<"b">>)),
                                    Member(<<"x">>, Str(<<"y">>))>>)), TRUE)],
      [kind |-> "object",
       text |-> Dumps(Dict(<<Member(NormKey, Str(<<"z">>)),
                             Member(FullNameKey, PyInt(<<"1">>))>>))],
      [kind |-> "object",
       text |-> <<"o", "k", " ">> \o Dumps(Dict(<<>>))],
      [kind |-> "object",
       text |-> <<"o", "k", " ">> \o Dumps(Dict(<<Member(<<"x">>, Str(<<"}">>))>>))],
      [kind |-> "non_object", text |-> Dumps(None)],
      [kind |-> "non_object",
       text |-> Dumps(List(<<Dict(<<Member(FullNameKey, Str(<<"a">>))>>)>>))],
      [kind |-> "non_object", text |-> Dumps(PyInt(<<"1">>))],
      [kind |-> "no_object", text |-> <<"o", "o", "p", "s">>] }

\* what requests.post and resp.json() can do with a request: exc is the
\* exception one of them raises ("none" when neither does), status_code the
\* HTTP status, text the "response" field of the body
Responses ==
    {[kind |-> "transport", exc |-> "RequestException", status_code |-> 0, text |-> <<>>],
     [kind |-> "status", exc |-> "none", status_code |-> 500, text |-> <<>>],
     [kind |-> "body", exc |-> "ValueError", status_code |-> 200, text |-> <<>>]}
    \cup {[kind |-> t.kind, exc |-> "none", status_code |-> 200, text |-> t.text]
          : t \in ResponseTexts}

\* what call_ollama returns for each of them
ServiceResults == {[resp |-> r, merged_json |-> call_ollama(r)] : r \in Responses}

\* the entry of a group the service is not called for
NotCalled ==
    [resp |-> [kind |-> "not_called", exc |-> "none", status_code |-> 0, text |-> <<>>],
     merged_json |-> None]

----------------------------------------------------------------------------
(* process_duplicates *)

\* the group the loop is at
ThisGroup == grouped[gi]

InLoop == pc = "loop" /\ gi <= Len(grouped)

\* mutant: the empty key is grouped like any other
IsPassthroughBySize(g) == Len(g.rows) = 1

\* line 300
IsPassthrough(g) == g.key = <<>> \/ Len(g.rows) = 1

\* mutant: the cap is compared with > for >=
IsCappedAfter == MAX_GROUPS # NoCap /\ processed_count > MAX_GROUPS

\* mutant: the cap counts the calls made, not the merges that succeeded
IsCappedByAttempts == MAX_GROUPS # NoCap /\ Len(prompts) >= MAX_GROUPS

\* line 305
IsCapped == MAX_GROUPS # NoCap /\ processed_count >= MAX_GROUPS

\* what history keeps of a group: its key, the rows it holds, how the loop
\* left it, and what the service did (its kind) and call_ollama returned
Entry(g, outcome, call) ==
    [key |-> g.key,
     srcs |-> [n \in 1..Len(g.rows) |-> g.rows[n].src],
     outcome |-> outcome,
     kind |-> call.resp.kind,
     merged_json |-> call.merged_json]

\* lines 281-283: an empty table is returned as it is
EmptyInput ==
    /\ pc = "start"
    /\ master = <<>>
    /\ final_df' = DataFrame(master)
    /\ pc' = "done"
    /\ UNCHANGED <<service, prior, master, MAX_GROUPS, grouped, gi, unique_rows, merged_rows,
                   processed_count, prompts, history>>

\* lines 286-294: the groups are formed and the loop is entered
Begin ==
    /\ pc = "start"
    /\ master # <<>>
    /\ pc' = "loop"
    /\ grouped' = groupby(master)
    /\ gi' = 1
    /\ unique_rows' = <<>>
    /\ merged_rows' = <<>>
    /\ processed_count' = 0
    /\ UNCHANGED <<service, prior, master, MAX_GROUPS, final_df, prompts, history>>

\* lines 300-302: a group of one row, or the group of the empty key
Passthrough ==
    /\ InLoop
    /\ IsPassthrough(ThisGroup)
    /\ unique_rows' = unique_rows \o Emitted(ThisGroup.rows, ThisGroup.key)
    /\ history' = Append(history, Entry(ThisGroup, "unique", NotCalled))
    /\ gi' = gi + 1
    /\ UNCHANGED <<service, prior, master, MAX_GROUPS, pc, grouped, merged_rows, processed_count,
                   final_df, prompts>>

\* mutant: a group over the cap is skipped without its rows being kept
CapSkipDropsGroup ==
    /\ InLoop
    /\ ~IsPassthrough(ThisGroup)
    /\ IsCapped
    /\ history' = Append(history, Entry(ThisGroup, "capped", NotCalled))
    /\ gi' = gi + 1
    /\ UNCHANGED <<service, prior, master, MAX_GROUPS, pc, grouped, unique_rows, merged_rows,
                   processed_count, final_df, prompts>>

\* lines 305-307: the cap is reached
CapSkip ==
    /\ InLoop
    /\ ~IsPassthrough(ThisGroup)
    /\ IsCapped
    /\ unique_rows' = unique_rows \o Emitted(ThisGroup.rows, ThisGroup.key)
    /\ history' = Append(history, Entry(ThisGroup, "capped", NotCalled))
    /\ gi' = gi + 1
    /\ UNCHANGED <<service, prior, master, MAX_GROUPS, pc, grouped, merged_rows, processed_count,
                   final_df, prompts>>

\* mutant: on a failed merge only the first row of the group is kept
MergeFailedKeepsFirst ==
    /\ InLoop
    /\ ~IsPassthrough(ThisGroup)
    /\ ~IsCapped
    /\ \E call \in service :
        LET merged_json == call.merged_json IN
        /\ merged_json.t # "dict"
        /\ prompts' = Append(prompts, build_prompt_for_group(ThisGroup.rows))
        /\ unique_rows' = unique_rows
                \o Emitted(SubSeq(ThisGroup.rows, 1, 1), ThisGroup.key)
        /\ history' = Append(history, Entry(ThisGroup, "failed", call))
    /\ gi' = gi + 1
    /\ UNCHANGED <<service, prior, master, MAX_GROUPS, pc, grouped, merged_rows, processed_count, final_df>>

\* lines 311-320: the service is called and gives no dict
MergeFailed ==
    /\ InLoop
    /\ ~IsPassthrough(ThisGroup)
    /\ ~IsCapped
    /\ \E call \in service :
        LET merged_json == call.merged_json IN
        /\ merged_json.t # "dict"
        /\ prompts' = Append(prompts, build_prompt_for_group(ThisGroup.rows))
        /\ unique_rows' = unique_rows \o Emitted(ThisGroup.rows, ThisGroup.key)
        /\ history' = Append(history, Entry(ThisGroup, "failed", call))
    /\ gi' = gi + 1
    /\ UNCHANGED <<service, prior, master, MAX_GROUPS, pc, grouped, merged_rows, processed_count, final_df>>

\* mutant: the source rows are kept beside the merged record
MergeSucceededKeepsSources ==
    /\ InLoop
    /\ ~IsPassthrough(ThisGroup)
    /\ ~IsCapped
    /\ \E call \in service :
        LET merged_json == call.merged_json IN
        /\ merged_json.t = "dict"
        /\ prompts' = Append(prompts, build_prompt_for_group(ThisGroup.rows))
        /\ merged_rows' = Append(merged_rows,
               [src |-> 0, grp |-> ThisGroup.key, rec |-> MergedRecord(merged_json)])
        /\ history' = Append(history, Entry(ThisGroup, "merged", call))
    /\ unique_rows' = unique_rows \o Emitted(ThisGroup.rows, ThisGroup.key)
    /\ processed_count' = processed_count + 1
    /\ gi' = gi + 1
    /\ UNCHANGED <<service, prior, master, MAX_GROUPS, pc, grouped, final_df>>

\* lines 311-317 and 324-332: the service is called and gives a dict
MergeSucceeded ==
    /\ InLoop
    /\ ~IsPassthrough(ThisGroup)
    /\ ~IsCapped
    /\ \E call \in service :
        LET merged_json == call.merged_json IN
        /\ merged_json.t = "dict"
        /\ prompts' = Append(prompts, build_prompt_for_group(ThisGroup.rows))
        /\ merged_rows' = Append(merged_rows,
               [src |-> 0, grp |-> ThisGroup.key, rec |-> MergedRecord(merged_json)])
        /\ history' = Append(history, Entry(ThisGroup, "merged", call))
    /\ processed_count' = processed_count + 1
    /\ gi' = gi + 1
    /\ UNCHANGED <<service, prior, master, MAX_GROUPS, pc, grouped, unique_rows, final_df>>

\* lines 336-348: the loop is over and the final frame is composed
Compose ==
    /\ pc = "loop"
    /\ gi > Len(grouped)
    /\ final_df' = ComposeFinal(unique_rows, merged_rows)
    /\ pc' = "done"
    /\ UNCHANGED <<service, prior, master, MAX_GROUPS, grouped, gi, unique_rows, merged_rows,
                   processed_count, prompts, history>>

EmptyFrame == [columns |-> <<>>, rows |-> <<>>]

\* no run of process_duplicates came before this one
NoPrior == [ran |-> FALSE, master |-> <<>>, history |-> <<>>, final_df |-> EmptyFrame]

XIdle ==
    /\ text = <<>> /\ xobj = None /\ xform = "none"
    /\ xpc = "off" /\ scan = ScanInit /\ result = None
NIdle == name1 = None /\ name2 = None /\ key1 = <<>> /\ key2 = <<>> /\ npc = "off"

Init ==
    /\ \E raw \in RawTables : master = prepare_dataframe(raw)
    /\ MAX_GROUPS \in {NoCap} \cup 0..MaxCap
    /\ service = ServiceResults
    /\ prior = NoPrior
    /\ pc = "start"
    /\ grouped = <<>>
    /\ gi = 0
    /\ unique_rows = <<>>
    /\ merged_rows = <<>>
    /\ processed_count = 0
    /\ final_df = EmptyFrame
    /\ prompts = <<>>
    /\ history = <<>>
    /\ XIdle
    /\ NIdle

Next ==
    \/ EmptyInput /\ UNCHANGED <<xvars, nvars>>
    \/ Begin /\ UNCHANGED <<xvars, nvars>>
    \/ Passthrough /\ UNCHANGED <<xvars, nvars>>
    \/ CapSkip /\ UNCHANGED <<xvars, nvars>>
    \/ MergeFailed /\ UNCHANGED <<xvars, nvars>>
    \/ MergeSucceeded /\ UNCHANGED <<xvars, nvars>>
    \/ Compose /\ UNCHANGED <<xvars, nvars>>

Spec == Init /\ [][Next]_vars

----------------------------------------------------------------------------
(* two runs of main(), one after the other, under one MAX_GROUPS *)

\* the tables of the two runs: rows of two names
PairTables ==
    {t \in RawTables :
        \A n \in 1..Len(t) : t[n].rec[1].v \in {Str(<<"a">>), Str(<<"b">>)}}

\* what the service answers in the two runs: a transport failure, an object
\* with the columns of the table, an object with a column of its own
PairResults ==
    {c \in ServiceResults :
        \/ c.resp.kind = "transport"
        \/ c.merged_json = Dict(<<Member(FullNameKey, Str(<<"A", " ", "b">>))>>)
        \/ c.merged_json = Dict(<<Member(FullNameKey, Str(<<"b">>)),
                                  Member(<<"x">>, Str(<<"y">>))>>)}

\* the records of the rows of a table, in the table's order
Records(rows) == [n \in 1..Len(rows) |-> rows[n].rec]

\* the two tables have a group of the same key and the same records
ShareGroup(t1, t2) ==
    \E n \in 1..Len(t1) :
        Records(GroupRows(t1, KeyOf(t1[n]))) = Records(GroupRows(t2, KeyOf(t1[n])))

\* main() is run again, on another table that holds one of the groups the
\* first run held; what the first run did is kept in prior
Rerun ==
    /\ pc = "done"
    /\ ~prior.ran
    /\ prior' = [ran |-> TRUE, master |-> master, history |-> history,
                 final_df |-> final_df]
    /\ \E raw \in PairTables :
          /\ master' = prepare_dataframe(raw)
          /\ ShareGroup(master, master')
    /\ pc' = "start"
    /\ grouped' = <<>>
    /\ gi' = 0
    /\ unique_rows' = <<>>
    /\ merged_rows' = <<>>
    /\ processed_count' = 0
    /\ final_df' = EmptyFrame
    /\ prompts' = <<>>
    /\ history' = <<>>
    /\ UNCHANGED <<service, MAX_GROUPS>>

InitPair ==
    /\ \E raw \in PairTables : master = prepare_dataframe(raw)
    /\ MAX_GROUPS \in {NoCap} \cup 0..MaxCap
    /\ service = PairResults
    /\ prior = NoPrior
    /\ pc = "start"
    /\ grouped = <<>>
    /\ gi = 0
    /\ unique_rows = <<>>
    /\ merged_rows = <<>>
    /\ processed_count = 0
    /\ final_df = EmptyFrame
    /\ prompts = <<>>
    /\ history = <<>>
    /\ XIdle
    /\ NIdle

NextPair ==
    \/ EmptyInput /\ UNCHANGED <<xvars, nvars>>
    \/ Begin /\ UNCHANGED <<xvars, nvars>>
    \/ Passthrough /\ UNCHANGED <<xvars, nvars>>
    \/ CapSkip /\ UNCHANGED <<xvars, nvars>>
    \/ MergeFailed /\ UNCHANGED <<xvars, nvars>>
    \/ MergeSucceeded /\ UNCHANGED <<xvars, nvars>>
    \/ Compose /\ UNCHANGED <<xvars, nvars>>
    \/ Rerun /\ UNCHANGED <<xvars, nvars>>

SpecPair == InitPair /\ [][NextPair]_vars

----------------------------------------------------------------------------
(* safe_json_loads, step by step, over texts that embed an object *)

MaxStrLen == 2
MaxDepth == 1

\* the str values of the objects: "b" and the two braces
StrValues ==
    UNION {[1..len -> {"b", "{", "}"}] : len \in 0..MaxStrLen}

LeafValues == {Str(v) : v \in StrValues} \cup {None, PyInt(<<"1">>)}

RECURSIVE Objects(_)
\* the objects nested at most d deep: {} and {"a": v}
Objects(d) ==
    {Dict(<<>>)}
    \cup {Dict(<<Member(<<"a">>, v)>>) : v \in LeafValues}
    \cup (IF d = 0 THEN {}
          ELSE {Dict(<<Member(<<"a">>, o)>>) : o \in Objects(d - 1)})

ObjectPool == Objects(MaxDepth)

\* {...} blocks json.loads rejects
MalformedBlocks ==
    { <<"{", "b", "}">>,
      <<"{", "\"", "a", "\"", "}">>,
      <<"{", "\"", "a", "\"", ":", " ", "\"", "b", "\"", ",", "}">>,
      <<"{", "{", "\"", "a", "\"", ":", " ", "\"", "b", "\"", "}", "}">>,
      <<"{", "\"", "a", "\"", ":", " ", "\"", "{", "\"", ",", "}">> }

\* the text that embeds the serialization of o in the given form
Embed(o, form) ==
    IF form = "raw" THEN Dumps(o)
    ELSE IF form = "fenced" THEN Fenced(Dumps(o), FALSE)
    ELSE IF form = "fenced_json" THEN Fenced(Dumps(o), TRUE)
    ELSE <<"o", "k", ":", " ">> \o Dumps(o) \o <<" ", "o", "k">>

EmbedForms == {"raw", "fenced", "fenced_json", "commentary"}

XInit ==
    /\ \/ \E o \in ObjectPool, form \in EmbedForms :
            /\ xobj = o
            /\ xform = form
            /\ text = Embed(o, form)
       \/ \E o \in ObjectPool, bad \in MalformedBlocks :
            /\ xobj = o
            /\ xform = "after_malformed"
            /\ text = bad \o <<" ">> \o Dumps(o)
       \/ \E t \in ResponseTexts :
            /\ xobj = None
            /\ xform = "response"
            /\ text = t.text
    /\ xpc = "direct"
    /\ scan = ScanInit
    /\ result = None

\* lines 136-139: the direct attempt
XDirect ==
    /\ xpc = "direct"
    /\ LET r == DirectAttempt(text) IN
       IF r.ok THEN result' = r.val /\ xpc' = "done"
       ELSE result' = result /\ xpc' = "fence"
    /\ UNCHANGED <<text, xobj, xform, scan>>

\* lines 142-148: the fenced block
XFence ==
    /\ xpc = "fence"
    /\ LET r == FenceAttempt(text) IN
       IF r.ok THEN result' = r.val /\ xpc' = "done"
       ELSE result' = result /\ xpc' = "scan"
    /\ UNCHANGED <<text, xobj, xform, scan>>

\* lines 154-169: one character of the brace scan
XScan ==
    /\ xpc = "scan"
    /\ scan.i <= Len(text)
    /\ scan' = ScanStep(text, scan)
    /\ IF scan'.returned THEN result' = scan'.val /\ xpc' = "done"
       ELSE result' = result /\ xpc' = xpc
    /\ UNCHANGED <<text, xobj, xform>>

\* lines 170-171: the text is exhausted
XNotParseable ==
    /\ xpc = "scan"
    /\ scan.i > Len(text)
    /\ result' = None
    /\ xpc' = "done"
    /\ UNCHANGED <<text, xobj, xform, scan>>

PIdle ==
    /\ service = {} /\ prior = NoPrior
    /\ master = <<>> /\ MAX_GROUPS = NoCap /\ pc = "off" /\ grouped = <<>>
    /\ gi = 0 /\ unique_rows = <<>> /\ merged_rows = <<>>
    /\ processed_count = 0 /\ final_df = EmptyFrame /\ prompts = <<>>
    /\ history = <<>>

InitExtract == XInit /\ PIdle /\ NIdle

NextExtract ==
    \/ XDirect /\ UNCHANGED <<pvars, nvars>>
    \/ XFence /\ UNCHANGED <<pvars, nvars>>
    \/ XScan /\ UNCHANGED <<pvars, nvars>>
    \/ XNotParseable /\ UNCHANGED <<pvars, nvars>>

SpecExtract == InitExtract /\ [][NextExtract]_vars

----------------------------------------------------------------------------
(* normalize_name, applied to two names *)

MaxNameLen == 3

\* the characters of the names: a letter in both cases, a space, a
\* punctuation character
NameChars == {"a", "A", " ", "'"}

Names == UNION {[1..len -> NameChars] : len \in 0..MaxNameLen}

NInit ==
    /\ name1 \in {Str(n) : n \in Names}
    /\ name2 \in {Str(n) : n \in Names} \cup {NaN}
    /\ key1 = <<>>
    /\ key2 = <<>>
    /\ npc = "loaded"

\* line 271: master["FullName"].apply(normalize_name)
ApplyNormalize ==
    /\ npc = "loaded"
    /\ key1' = normalize_name(name1)
    /\ key2' = normalize_name(name2)
    /\ npc' = "prepared"
    /\ UNCHANGED <<name1, name2>>

InitNormalize == NInit /\ PIdle /\ XIdle

NextNormalize == ApplyNormalize /\ UNCHANGED <<pvars, xvars>>

SpecNormalize == InitNormalize /\ [][NextNormalize]_vars

----------------------------------------------------------------------------
(* what the claims are stated with *)

OutRows == final_df.rows

Range(seq) == {seq[n] : n \in 1..Len(seq)}

\* the cells of a row of the working table, the helper column left out
Cells(row) == {mem \in Range(row.rec) : mem.k # NormKey}

\* out is the row of the working table, as a row of a frame: the cells of
\* the row as they were, NaN in every other column, no helper column
SameRecord(out, row) ==
    /\ out.src = row.src
    /\ \A mem \in Cells(row) : mem \in Range(out.rec)
    /\ \A cell \in Range(out.rec) :
         /\ cell.k # NormKey
         /\ cell \in Cells(row) \/ (cell.v = NaN /\ \A mem \in Cells(row) : mem.k # cell.k)

\* the row is in the frame once, unchanged
EmittedUnchanged(row) ==
    /\ Cardinality({j \in 1..Len(OutRows) : OutRows[j].src = row.src}) = 1
    /\ \E j \in 1..Len(OutRows) : SameRecord(OutRows[j], row)

\* the positions in the frame of the merged rows of the group with this key
MergedRowsOf(key) ==
    {j \in 1..Len(OutRows) : OutRows[j].src = 0 /\ OutRows[j].grp = key}

\* the position in the loop of the group with this key
GroupIndex(key) == CHOOSE i \in 1..Len(history) : history[i].key = key

FailureKinds == {"transport", "status", "body", "no_object", "non_object"}

\* C1: when process_duplicates has returned, every row of the working table
\* is in the output unchanged or its group has a merged row in the output;
\* and when no group was merged the output holds exactly the rows of the
\* table, each once.
NoSilentDrops ==
    pc = "done" =>
        /\ \A n \in 1..Len(master) :
              \/ EmittedUnchanged(master[n])
              \/ MergedRowsOf(KeyOf(master[n])) # {}
        /\ (\A i \in 1..Len(history) : history[i].outcome # "merged") =>
              /\ Len(OutRows) = Len(master)
              /\ \A n \in 1..Len(master) : EmittedUnchanged(master[n])

\* C1 witness: a run over four rows that ended with one group merged and
\* one group whose merge failed
NoSilentDropsWitness ==
    /\ pc = "done"
    /\ Len(master) = 4
    /\ \E i, j \in 1..Len(history) :
          history[i].outcome = "merged" /\ history[j].outcome = "failed"

\* C2: a group the service failed on (transport error, status other than
\* 200, unreadable body, no object in the text, a value that is no object)
\* is left as failed, all its rows are kept unchanged and it gets no merged
\* row; the loop goes on to the last group.
FallbackOnFailure ==
    /\ \A i \in 1..Len(history) :
          history[i].kind \in FailureKinds =>
              /\ history[i].outcome = "failed"
              /\ Len(history[i].srcs) >= 2
              /\ \A n \in Range(history[i].srcs) :
                    Cardinality({u \in 1..Len(unique_rows) :
                                   /\ unique_rows[u].src = n
                                   /\ unique_rows[u].rec = master[n].rec}) = 1
              /\ \A m \in 1..Len(merged_rows) : merged_rows[m].grp # history[i].key
              /\ pc = "done" =>
                    /\ \A n \in Range(history[i].srcs) : EmittedUnchanged(master[n])
                    /\ MergedRowsOf(history[i].key) = {}
    /\ (pc = "done" /\ master # <<>>) => Len(history) = Len(grouped)

\* C2 witness: the run is over and the merge of a two-row group failed on a
\* value that is no object
FallbackOnFailureWitness ==
    /\ pc = "done"
    /\ \E i \in 1..Len(history) :
          /\ history[i].kind = "non_object"
          /\ Len(history[i].srcs) = 2
          /\ Len(OutRows) = Len(master)

\* the record the service returned, as a row of the frame: its fields but
\* the helper key, NaN in every other column
ReturnedRecord(out, merged_json) ==
    LET fields == {mem \in Range(merged_json.m) : mem.k # NormKey} IN
    /\ \A mem \in fields : mem \in Range(out.rec)
    /\ \A cell \in Range(out.rec) :
         /\ cell.k # NormKey
         /\ cell \in fields \/ (cell.v = NaN /\ \A mem \in fields : mem.k # cell.k)

\* C3: a group for which call_ollama returned a dict has exactly one row in
\* the output, the returned record without the helper key, and none of its
\* source rows.
MergeReplacesGroup ==
    pc = "done" =>
        \A i \in 1..Len(history) :
            (history[i].kind # "not_called" /\ history[i].merged_json.t = "dict") =>
                /\ Len(history[i].srcs) >= 2
                /\ Cardinality({j \in 1..Len(OutRows) :
                                  OutRows[j].grp = history[i].key}) = 1
                /\ \E j \in MergedRowsOf(history[i].key) :
                      ReturnedRecord(OutRows[j], history[i].merged_json)
                /\ \A j \in 1..Len(OutRows) : OutRows[j].src \notin Range(history[i].srcs)

\* C3 witness: the run is over and the service returned, for a group, a
\* record that holds the helper key
MergeReplacesGroupWitness ==
    /\ pc = "done"
    /\ \E i \in 1..Len(history) :
          /\ history[i].outcome = "merged"
          /\ DictIndex(history[i].merged_json.m, NormKey, 1) # 0
          /\ MergedRowsOf(history[i].key) # {}

\* C4 as claimed: every output row of a group the loop took earlier precedes
\* every output row of a group it took later.
AssemblyInGroupOrder ==
    pc = "done" =>
        \A a, b \in 1..Len(OutRows) :
            GroupIndex(OutRows[a].grp) < GroupIndex(OutRows[b].grp) => a < b

\* C4 as amended: the output lists the rows of the groups that were not
\* merged, in group order and within a group in the table's order, and after
\* them the merged rows, in group order.
AssemblyUniqueThenMerged ==
    pc = "done" =>
        \A a, b \in 1..Len(OutRows) :
            a < b =>
                /\ OutRows[a].src = 0 => OutRows[b].src = 0
                /\ (OutRows[a].src = 0) = (OutRows[b].src = 0) =>
                      GroupIndex(OutRows[a].grp) <= GroupIndex(OutRows[b].grp)
                /\ (OutRows[a].src # 0 /\ OutRows[a].grp = OutRows[b].grp) =>
                      OutRows[a].src < OutRows[b].src

\* C4 witness: the merged row of an earlier group follows the rows of a
\* later group
AssemblyWitness ==
    /\ pc = "done"
    /\ \E a, b \in 1..Len(OutRows) :
          /\ a < b
          /\ OutRows[b].src = 0
          /\ OutRows[a].src # 0
          /\ GroupIndex(OutRows[b].grp) < GroupIndex(OutRows[a].grp)

\* the rows of the working table with this key, in the table's order
RowsWithKey(key) ==
    LET Has(n) == KeyOf(master[n]) = key
    IN  SelectSeq([n \in 1..Len(master) |-> n], Has)

\* C5 as claimed: the loop takes the groups in the order in which their keys
\* first appear in the working table, each with its rows in the table's order.
FirstSeenGroupOrder ==
    /\ \A i, j \in 1..Len(history) :
          i < j => history[i].srcs[1] < history[j].srcs[1]
    /\ \A i \in 1..Len(history) : history[i].srcs = RowsWithKey(history[i].key)

\* C5 as amended: the loop takes the groups in ascending order of their keys
\* (the empty key first), each with its rows in the table's order.
SortedGroupOrder ==
    /\ \A i, j \in 1..Len(history) :
          i < j => KeyLess(history[i].key, history[j].key)
    /\ \A i \in 1..Len(history) : history[i].srcs = RowsWithKey(history[i].key)
    /\ pc = "done" => \A n \in 1..Len(master) :
          \E i \in 1..Len(history) : history[i].key = KeyOf(master[n])

\* C5 witness: the run is over and a group whose key appears later in the
\* table was taken before one whose key appears earlier
SortedGroupOrderWitness ==
    /\ pc = "done"
    /\ \E i, j \in 1..Len(history) :
          /\ i < j
          /\ history[i].srcs[1] > history[j].srcs[1]
          /\ Len(history[i].srcs) = 2

\* the key normalize_name gives the row's FullName
NameKey(n) == normalize_name(DictGet(master[n].rec, FullNameKey, NaN))

\* the two rows are in one prompt
SamePrompt(n1, n2) ==
    \E p \in 1..Len(prompts) :
        \E a, b \in 1..Len(prompts[p]) :
            prompts[p][a].src = n1 /\ prompts[p][b].src = n2

\* C6: with no cap, two rows are sent to the service in one prompt exactly
\* when their normalized keys (normalize_name of their FullName, which is
\* what the helper column holds) are equal and not empty; a row whose key is
\* empty or shared by no other row is in no prompt and is emitted unchanged.
GroupingCompleteness ==
    (pc = "done" /\ MAX_GROUPS = NoCap) =>
        /\ \A n \in 1..Len(master) : KeyOf(master[n]) = NameKey(n)
        /\ \A n1, n2 \in 1..Len(master) :
              n1 # n2 =>
                  (SamePrompt(n1, n2) <=>
                      (KeyOf(master[n1]) = KeyOf(master[n2]) /\ KeyOf(master[n1]) # <<>>))
        /\ \A n \in 1..Len(master) :
              (\/ KeyOf(master[n]) = <<>>
               \/ \A o \in 1..Len(master) : o # n => KeyOf(master[o]) # KeyOf(master[n])) =>
                  /\ ~SamePrompt(n, n)
                  /\ EmittedUnchanged(master[n])

\* C6 witness: a run with no cap over two rows of the empty key and two rows
\* of one other key
GroupingCompletenessWitness ==
    /\ pc = "done"
    /\ MAX_GROUPS = NoCap
    /\ \E n1, n2, n3, n4 \in 1..Len(master) :
          /\ n1 # n2 /\ n3 # n4
          /\ NameKey(n1) = <<>> /\ NameKey(n2) = <<>>
          /\ master[n3].rec # master[n4].rec
          /\ NameKey(n3) = NameKey(n4) /\ NameKey(n3) # <<>>
          /\ SamePrompt(n3, n4)

\* the merges that succeeded before the loop took its i-th group
MergedBefore(i) ==
    Cardinality({j \in 1..(i - 1) : history[j].outcome = "merged"})

\* C7: with the cap N there are never more than N merged records; a group of
\* two or more rows with a key is skipped, its rows kept unchanged and the
\* service not called, exactly when N merges have succeeded before it
\* (failed attempts are not counted); and a group of one row or of the
\* empty key is passed through whatever the cap.
ProcessingCap ==
    /\ MAX_GROUPS # NoCap =>
          Len(merged_rows) <= MAX_GROUPS /\ processed_count <= MAX_GROUPS
    /\ Len(prompts) = Cardinality({i \in 1..Len(history) :
                                     history[i].outcome \in {"failed", "merged"}})
    /\ \A i \in 1..Len(history) :
          LET e == history[i]
              single == e.key = <<>> \/ Len(e.srcs) = 1
          IN  /\ (e.outcome = "unique") <=> single
              /\ (e.outcome = "capped") <=>
                    (~single /\ MAX_GROUPS # NoCap /\ MergedBefore(i) >= MAX_GROUPS)
              /\ (e.kind = "not_called") <=> (e.outcome \in {"unique", "capped"})
              /\ e.outcome \in {"unique", "capped"} =>
                    \A n \in Range(e.srcs) :
                        Cardinality({u \in 1..Len(unique_rows) :
                                       /\ unique_rows[u].src = n
                                       /\ unique_rows[u].rec = master[n].rec}) = 1

\* C7 witness: with the cap 1, a merge succeeded and the next group of two
\* rows was skipped
ProcessingCapWitness ==
    /\ pc = "done"
    /\ MAX_GROUPS = 1
    /\ \E i, j \in 1..Len(history) :
          /\ i < j
          /\ history[i].outcome = "merged"
          /\ history[j].outcome = "capped"
          /\ Len(OutRows) = 3

\* C8: when safe_json_loads has returned, on a text that is the
\* serialization of an object alone, in a fenced block (tagged json or not)
\* or between brace-free commentary, the result is that object.
ExtractorRoundTrip ==
    (xpc = "done" /\ xform \in EmbedForms) => result = xobj

\* C9: when safe_json_loads has returned, on a text made of a malformed
\* {...} block followed by the serialization of an object, the result is
\* that object.
ExtractorResilience ==
    (xpc = "done" /\ xform = "after_malformed") => result = xobj

IsPunctuation(c) == ~IsWordChar(c) /\ ~IsSpace(c)

RECURSIVE SplitWords(_, _, _, _)
\* the words of s, in lower case: whitespace separates words, and a
\* punctuation character separates them too (splits) or is left out
SplitWords(s, cur, acc, splits) ==
    LET flushed == IF cur = <<>> THEN acc ELSE Append(acc, cur) IN
    IF s = <<>> THEN flushed
    ELSE IF IsSpace(Head(s)) \/ (splits /\ IsPunctuation(Head(s)))
         THEN SplitWords(Tail(s), <<>>, flushed, splits)
    ELSE IF IsPunctuation(Head(s)) THEN SplitWords(Tail(s), cur, acc, splits)
    ELSE SplitWords(Tail(s), Append(cur, Lower(Head(s))), acc, splits)

----------------------------------------------------------------------------
(* the two runs compared *)

\* the cells of an output row that hold a value
ValueCells(out) == {cell \in Range(out.rec) : cell.k # NormKey /\ cell.v # NaN}

\* the output rows of the group with this key, in the frame's order, each as
\* the values it holds
GroupOutput(df, key) ==
    LET OfGroup(out) == out.grp = key
        outs == SelectSeq(df.rows, OfGroup)
    IN  [n \in 1..Len(outs) |-> ValueCells(outs[n])]

\* the records of the group of a history entry, in the table's order
GroupRecords(tbl, e) == [n \in 1..Len(e.srcs) |-> tbl[e.srcs[n]].rec]

\* the i-th group of the run before and the j-th group of this run have the
\* same key and the same records
SameGroup(i, j) ==
    /\ prior.history[i].key = history[j].key
    /\ GroupRecords(prior.master, prior.history[i]) = GroupRecords(master, history[j])

\* the service was called for the group of the entry
Called(e) == e.kind # "not_called"

\* the two runs got the same answer for the group: the same kind of response
\* and the same value from call_ollama
SameAnswer(e1, e2) == e1.kind = e2.kind /\ e1.merged_json = e2.merged_json

\* MAX_GROUPS merges had succeeded before the i-th group of the run h
CapReached(h, i) ==
    /\ MAX_GROUPS # NoCap
    /\ Cardinality({k \in 1..(i - 1) : h[k].outcome = "merged"}) >= MAX_GROUPS

\* C11 as claimed: of two runs under one cap that hold a group of the same
\* records, both call the service for it or neither does, and when the
\* answers for it are the same its output rows are the same, whatever the
\* other groups are and whatever became of them.
GroupIndependence ==
    (pc = "done" /\ prior.ran) =>
        \A i \in 1..Len(prior.history) : \A j \in 1..Len(history) :
            SameGroup(i, j) =>
                /\ Called(prior.history[i]) <=> Called(history[j])
                /\ SameAnswer(prior.history[i], history[j]) =>
                      GroupOutput(prior.final_df, history[j].key)
                          = GroupOutput(final_df, history[j].key)

\* C11 as amended: the same, of two runs in which the cap was reached before
\* the group in both or in neither (with no cap, of any two runs): then both
\* call the service for it or neither does, and with the same answer the
\* values its output rows hold are the same.
GroupIndependenceUpToCap ==
    (pc = "done" /\ prior.ran) =>
        \A i \in 1..Len(prior.history) : \A j \in 1..Len(history) :
            (/\ SameGroup(i, j)
             /\ CapReached(prior.history, i) <=> CapReached(history, j)) =>
                /\ Called(prior.history[i]) <=> Called(history[j])
                /\ SameAnswer(prior.history[i], history[j]) =>
                      GroupOutput(prior.final_df, history[j].key)
                          = GroupOutput(final_df, history[j].key)

\* C11 witness: two runs under the cap 1 over different tables; both called
\* the service for a group of two rows they share and got the same answer,
\* and another group was merged in one run only, which gave that run's
\* frame a column the other lacks
GroupIndependenceWitness ==
    /\ pc = "done"
    /\ prior.ran
    /\ MAX_GROUPS = 1
    /\ prior.master # master
    /\ prior.final_df.columns # final_df.columns
    /\ \E i \in 1..Len(prior.history) : \E j \in 1..Len(history) :
          /\ SameGroup(i, j)
          /\ Len(history[j].srcs) = 2
          /\ Called(history[j])
          /\ SameAnswer(prior.history[i], history[j])
          /\ \E k \in 1..Len(prior.history) :
                /\ prior.history[k].outcome = "merged"
                /\ \A l \in 1..Len(history) :
                      history[l].key = prior.history[k].key =>
                          history[l].outcome # "merged"

====
